---- MODULE Spec2Model ----
(***************************************************************************)
(* Frequency-based infrastructure-stress decision engine of InfraSense:    *)
(* one road's traffic samples are reduced to a pattern and congestion      *)
(* metrics, the decision matrix decides whether the road needs an          *)
(* intervention, recommendations are generated and the 0-100 priority      *)
(* score gives the priority label.  The analysis API runs that analysis    *)
(* for the roads of an area and aggregates the results into area insights; *)
(* the browser pages show analysis results and a road's hourly pattern.    *)
(* In the browser the route engine caches route answers for five minutes,  *)
(* the map page lists the sorted recommendations, and the analysis         *)
(* dashboard loads an area's analysis, filters and draws its roads, shows  *)
(* the statistics panel and reacts to the pointer.                         *)
(*                                                                         *)
(* Numbers.  Congestion values are integers in percent (80 = 0.80).        *)
(* Ratios are kept as numerator/denominator pairs and every threshold is   *)
(* compared by cross-multiplication, so no comparison is rounded.  Costs   *)
(* are in hundredths of a crore (6800 = 68.0 crore).                       *)
(***************************************************************************)
EXTENDS Integers, Sequences, FiniteSets, TLC

VARIABLES windowDays, samples, meta, pc, pattern, metrics, decision,
          recommendations, priorityScore, priority, raised, prevScore,
          reqDays, areaRoads, effDays, response, prevResponse, reordered,
          frontIn, frontCalls, analysisResults, prevAnalysisResults,
          chartsHourly, prevChartsHourly,
          now, apiCache, fetches, lastStart, lastReturn,
          recommendationsIn, sorted,
          analysisData, currentFilters, loadingOverlay, requests, issued,
          statistics, roadLayers, interventionMarkers, selectedRoad,
          hoveredRoad, listeners, lastLoad

\* the state of one road's analysis
roadVars == <<windowDays, samples, meta, pc, pattern, metrics, decision,
              recommendations, priorityScore, priority, raised, prevScore>>

\* the state of a request to the analysis API
areaVars == <<reqDays, areaRoads, effDays, response, prevResponse, reordered>>

\* the state of the browser pages: the map page with its analysis results
\* and the dashboard with its hourly chart
frontVars == <<frontIn, frontCalls, analysisResults, prevAnalysisResults,
               chartsHourly, prevChartsHourly>>

\* the state of the route engine's API cache
routeVars == <<now, apiCache, fetches, lastStart, lastReturn>>

\* the recommendations handed to the map page's list and their sorted order
listVars == <<recommendationsIn, sorted>>

\* the state of the analysis dashboard
dashVars == <<analysisData, currentFilters, loadingOverlay, requests, issued,
              statistics, roadLayers, interventionMarkers, selectedRoad,
              hoveredRoad, listeners, lastLoad>>

\* everything that lives in the browser besides the two pages above
clientVars == <<routeVars, listVars, dashVars>>

vars == <<windowDays, samples, meta, pc, pattern, metrics, decision,
          recommendations, priorityScore, priority, raised, prevScore,
          reqDays, areaRoads, effDays, response, prevResponse, reordered,
          frontIn, frontCalls, analysisResults, prevAnalysisResults,
          chartsHourly, prevChartsHourly,
          now, apiCache, fetches, lastStart, lastReturn,
          recommendationsIn, sorted,
          analysisData, currentFilters, loadingOverlay, requests, issued,
          statistics, roadLayers, interventionMarkers, selectedRoad,
          hoveredRoad, listeners, lastLoad>>

(***************************************************************************)
(* Bounds of the enumerated inputs.                                        *)
(***************************************************************************)
MaxSamples == 3

MaxWeekDays == 3

Levels == {30, 70, 90}

SmallWindow == 7

None == "none"

\* no response has been sent yet
NoResponse == [status |-> 0]

\* no browser page is open
NoPage == [page |-> "none"]

\* the map page has no analysis results yet
NoResults == [source |-> "none"]

\* getGoogleMapsRoute has not been called / has not returned yet
NoCall == [kind |-> "none"]

\* the dashboard's analysisData before the first load (null)
NoData == [source |-> "null"]

\* the statistics panel as the page is delivered, before any update
NoStatistics == [from |-> "none"]

\* no road is selected or hovered
NoRoad == "none"

\* the route engine is not in use
RouteIdle ==
    /\ now = 0
    /\ apiCache = <<>>
    /\ fetches = <<>>
    /\ lastStart = NoCall
    /\ lastReturn = NoCall

\* updateRecommendations has not been called
NotSorted == [called |-> FALSE]

\* the map page's recommendation list is not in use
ListIdle ==
    /\ recommendationsIn = <<>>
    /\ sorted = NotSorted

\* the dashboard is not open
DashIdle ==
    /\ analysisData = NoData
    /\ currentFilters = [timeRange |-> 0]
    /\ loadingOverlay = "none"
    /\ requests = <<>>
    /\ issued = 0
    /\ statistics = NoStatistics
    /\ roadLayers = {}
    /\ interventionMarkers = {}
    /\ selectedRoad = NoRoad
    /\ hoveredRoad = NoRoad
    /\ listeners = FALSE
    /\ lastLoad = NoCall

(***************************************************************************)
(* Arithmetic helpers.                                                     *)
(***************************************************************************)
RECURSIVE SeqSum(_)
SeqSum(s) == IF s = <<>> THEN 0 ELSE Head(s) + SeqSum(Tail(s))

RECURSIVE SeqMax(_)
SeqMax(s) ==
    IF s = <<>> THEN 0
    ELSE LET m == SeqMax(Tail(s)) IN IF Head(s) > m THEN Head(s) ELSE m

RECURSIVE SumOver(_, _)
SumOver(S, f) ==
    IF S = {} THEN 0
    ELSE LET x == CHOOSE y \in S : TRUE IN f[x] + SumOver(S \ {x}, f)

RECURSIVE Gcd(_, _)
Gcd(a, b) == IF b = 0 THEN a ELSE Gcd(b, a % b)

Lcm(a, b) == (a \div Gcd(a, b)) * b

RECURSIVE LcmOver(_, _)
LcmOver(S, f) ==
    IF S = {} THEN 1
    ELSE LET x == CHOOSE y \in S : TRUE IN Lcm(f[x], LcmOver(S \ {x}, f))

\* floor of the square root of n, by bisection on [lo, hi]
RECURSIVE SqrtSearch(_, _, _)
SqrtSearch(n, lo, hi) ==
    IF lo >= hi THEN lo
    ELSE LET mid == (lo + hi + 1) \div 2
         IN IF mid * mid <= n THEN SqrtSearch(n, mid, hi)
            ELSE SqrtSearch(n, lo, mid - 1)

ISqrt(n) == SqrtSearch(n, 0, 40000)

(***************************************************************************)
(* PatternAnalyzer.  samples maps each day of the window to the sequence   *)
(* of congestion values observed on that day (empty: no data that day).    *)
(***************************************************************************)
HIGH_TRAFFIC_THRESHOLD == 70

TREND_MARGIN == 10

DaysWithData(s) == {d \in DOMAIN s : s[d] # <<>>}

\* a slip that takes only days strictly above the threshold
IsHighTrafficDayStrict(s, d) ==
    /\ s[d] # <<>>
    /\ SeqSum(s[d]) > HIGH_TRAFFIC_THRESHOLD * Len(s[d])

\* a day's congestion is the average of its samples; the day is a
\* high-traffic day when that average reaches the threshold
IsHighTrafficDay(s, d) ==
    /\ s[d] # <<>>
    /\ SeqSum(s[d]) >= HIGH_TRAFFIC_THRESHOLD * Len(s[d])

\* a slip that counts the samples at or above the threshold, not the days
HighTrafficDayCountPerSample(s) ==
    SumOver(DOMAIN s,
            [d \in DOMAIN s |->
                Cardinality({i \in 1..Len(s[d]) :
                                s[d][i] >= HIGH_TRAFFIC_THRESHOLD})])

HighTrafficDayCount(s) ==
    Cardinality({d \in DOMAIN s : IsHighTrafficDay(s, d)})

SampleCount(s, D) == SumOver(D, [d \in D |-> Len(s[d])])

SampleSum(s, D) == SumOver(D, [d \in D |-> SeqSum(s[d])])

SampleMax(s) ==
    LET m == [d \in DOMAIN s |-> SeqMax(s[d])]
    IN IF DOMAIN s = {} THEN 0
       ELSE CHOOSE x \in {m[d] : d \in DOMAIN s} :
                \A d \in DOMAIN s : m[d] <= x

\* first third of the window against its last third
analyze_traffic_trend(s, w) ==
    LET third == w \div 3
        first == {d \in DOMAIN s : d <= third}
        last  == {d \in DOMAIN s : d > w - third}
        nF == SampleCount(s, first)
        nL == SampleCount(s, last)
        sF == SampleSum(s, first)
        sL == SampleSum(s, last)
    IN IF nF = 0 \/ nL = 0 THEN "stable"
       ELSE IF sL * nF - sF * nL >= TREND_MARGIN * nF * nL THEN "increasing"
       ELSE IF sF * nL - sL * nF >= TREND_MARGIN * nF * nL THEN "decreasing"
       ELSE "stable"

DayOfWeek(d) == (d - 1) % 7

\* average congestion per day of the week, as sum and count of the samples
\* of that week day; only week days with data are in the domain
calculate_weekly_pattern(s) ==
    LET dows == {DayOfWeek(d) : d \in DaysWithData(s)}
        on(k) == {d \in DOMAIN s : DayOfWeek(d) = k}
    IN [k \in dows |-> [sum |-> SampleSum(s, on(k)),
                        count |-> SampleCount(s, on(k))]]

analyzePattern(s, w) ==
    LET total == Cardinality(DaysWithData(s))
        high  == HighTrafficDayCount(s)
        n     == SampleCount(s, DOMAIN s)
    IN [pattern |->
          [highTrafficDayCount |-> high,
           totalDays |-> total,
           freqNum |-> IF total = 0 THEN 0 ELSE high,
           freqDen |-> IF total = 0 THEN 1 ELSE total,
           trend |-> IF n = 0 THEN "stable" ELSE analyze_traffic_trend(s, w),
           weeklyAverage |-> calculate_weekly_pattern(s)],
        metrics |->
          [avgNum |-> IF n = 0 THEN 0 ELSE SampleSum(s, DOMAIN s),
           avgDen |-> IF n = 0 THEN 1 ELSE n,
           maxCongestion |-> SampleMax(s)]]

\* frequencyScore >= pct/100 and avgCongestion >= pct/100, exactly
FreqGE(p, pct) == p.freqNum * 100 >= pct * p.freqDen

AvgGE(m, pct) == m.avgNum >= pct * m.avgDen

(***************************************************************************)
(* InterventionClassifier: the decision rules, first match wins.           *)
(***************************************************************************)
\* the same rules with the second one tested before the first
determine_intervention_need_reordered(p, m) ==
    IF FreqGE(p, 57) /\ AvgGE(m, 70)
    THEN [needs |-> TRUE, reason |-> "regular severe congestion",
          tier |-> "high"]
    ELSE IF FreqGE(p, 80) /\ m.maxCongestion >= 90
    THEN [needs |-> TRUE, reason |-> "daily extreme congestion",
          tier |-> "critical"]
    ELSE IF FreqGE(p, 57) /\ AvgGE(m, 60)
    THEN [needs |-> TRUE, reason |-> "regular congestion", tier |-> "high"]
    ELSE IF FreqGE(p, 57)
    THEN [needs |-> TRUE, reason |-> "recurring pattern", tier |-> "medium"]
    ELSE IF m.maxCongestion >= 90 /\ FreqGE(p, 30)
    THEN [needs |-> TRUE, reason |-> "occasional severe", tier |-> "medium"]
    ELSE IF p.trend = "increasing" /\ FreqGE(p, 30)
    THEN [needs |-> TRUE, reason |-> "growth concern", tier |-> "medium"]
    ELSE [needs |-> FALSE, reason |-> "acceptable", tier |-> "monitor"]

\* the occasional-severe rule without its frequency floor
determine_intervention_need_nofloor(p, m) ==
    IF FreqGE(p, 80) /\ m.maxCongestion >= 90
    THEN [needs |-> TRUE, reason |-> "daily extreme congestion",
          tier |-> "critical"]
    ELSE IF FreqGE(p, 57) /\ AvgGE(m, 70)
    THEN [needs |-> TRUE, reason |-> "regular severe congestion",
          tier |-> "high"]
    ELSE IF FreqGE(p, 57) /\ AvgGE(m, 60)
    THEN [needs |-> TRUE, reason |-> "regular congestion", tier |-> "high"]
    ELSE IF FreqGE(p, 57)
    THEN [needs |-> TRUE, reason |-> "recurring pattern", tier |-> "medium"]
    ELSE IF m.maxCongestion >= 90
    THEN [needs |-> TRUE, reason |-> "occasional severe", tier |-> "medium"]
    ELSE IF p.trend = "increasing" /\ FreqGE(p, 30)
    THEN [needs |-> TRUE, reason |-> "growth concern", tier |-> "medium"]
    ELSE [needs |-> FALSE, reason |-> "acceptable", tier |-> "monitor"]

\* the growth rule with the 3-days-a-week floor of the threshold table
determine_intervention_need_growth43(p, m) ==
    IF FreqGE(p, 80) /\ m.maxCongestion >= 90
    THEN [needs |-> TRUE, reason |-> "daily extreme congestion",
          tier |-> "critical"]
    ELSE IF FreqGE(p, 57) /\ AvgGE(m, 70)
    THEN [needs |-> TRUE, reason |-> "regular severe congestion",
          tier |-> "high"]
    ELSE IF FreqGE(p, 57) /\ AvgGE(m, 60)
    THEN [needs |-> TRUE, reason |-> "regular congestion", tier |-> "high"]
    ELSE IF FreqGE(p, 57)
    THEN [needs |-> TRUE, reason |-> "recurring pattern", tier |-> "medium"]
    ELSE IF m.maxCongestion >= 90 /\ FreqGE(p, 30)
    THEN [needs |-> TRUE, reason |-> "occasional severe", tier |-> "medium"]
    ELSE IF p.trend = "increasing" /\ FreqGE(p, 43)
    THEN [needs |-> TRUE, reason |-> "growth concern", tier |-> "medium"]
    ELSE [needs |-> FALSE, reason |-> "acceptable", tier |-> "monitor"]

determine_intervention_need(p, m) ==
    IF FreqGE(p, 80) /\ m.maxCongestion >= 90
    THEN [needs |-> TRUE, reason |-> "daily extreme congestion",
          tier |-> "critical"]
    ELSE IF FreqGE(p, 57) /\ AvgGE(m, 70)
    THEN [needs |-> TRUE, reason |-> "regular severe congestion",
          tier |-> "high"]
    ELSE IF FreqGE(p, 57) /\ AvgGE(m, 60)
    THEN [needs |-> TRUE, reason |-> "regular congestion", tier |-> "high"]
    ELSE IF FreqGE(p, 57)
    THEN [needs |-> TRUE, reason |-> "recurring pattern", tier |-> "medium"]
    ELSE IF m.maxCongestion >= 90 /\ FreqGE(p, 30)
    THEN [needs |-> TRUE, reason |-> "occasional severe", tier |-> "medium"]
    ELSE IF p.trend = "increasing" /\ FreqGE(p, 30)
    THEN [needs |-> TRUE, reason |-> "growth concern", tier |-> "medium"]
    ELSE [needs |-> FALSE, reason |-> "acceptable", tier |-> "monitor"]

(***************************************************************************)
(* RecommendationGenerator.  A recommendation is its type and its cost in  *)
(* hundredths of a crore; target lanes are kept for widening.              *)
(***************************************************************************)
RoadTypes == {"highway", "primary", "secondary", "tertiary", "residential"}

WIDENING_PER_KM == 850

FLYOVER_PER_KM == 4500

SIGNAL_PER_INTERSECTION == 15

PLANNING_PER_KM == 250

MAINTENANCE_PER_KM == 200

DefaultIntersectionCount == 1

get_recommended_lanes(roadType) ==
    CASE roadType = "highway" -> 6
      [] roadType = "primary" -> 4
      [] roadType = "secondary" -> 3
      [] roadType = "tertiary" -> 2
      [] roadType = "residential" -> 2
      [] OTHER -> 2

\* lengthKm or roadType missing: no cost can be estimated
ValidRoadMetadata(rm) == rm.hasLength /\ rm.roadType \in RoadTypes

Rec(type, cost, from, to) ==
    [type |-> type, estimatedCost |-> cost, fromLanes |-> from, toLanes |-> to]

generate(rm, p, m, tier) ==
    LET widening ==
            IF tier = "critical" /\ (AvgGE(m, 80) \/ rm.lanes <= 2)
            THEN <<Rec("widening", rm.lengthKm * WIDENING_PER_KM,
                       rm.lanes, get_recommended_lanes(rm.roadType))>>
            ELSE <<>>
        flyover ==
            IF tier = "critical"
               /\ rm.lanes >= get_recommended_lanes(rm.roadType)
            THEN <<Rec("flyover", rm.lengthKm * FLYOVER_PER_KM,
                       rm.lanes, rm.lanes)>>
            ELSE <<>>
        signals ==
            IF tier = "high" /\ FreqGE(p, 57) /\ ~FreqGE(p, 71)
            THEN <<Rec("signals",
                       DefaultIntersectionCount * SIGNAL_PER_INTERSECTION,
                       rm.lanes, rm.lanes)>>
            ELSE <<>>
        planning ==
            IF tier = "medium" /\ p.trend = "increasing"
            THEN <<Rec("planning", rm.lengthKm * PLANNING_PER_KM,
                       rm.lanes, rm.lanes)>>
            ELSE <<>>
        matched == widening \o flyover \o signals \o planning
    IN IF tier = "monitor" THEN <<>>
       ELSE IF ~ValidRoadMetadata(rm) THEN <<>>
       ELSE IF matched # <<>> THEN matched
       ELSE <<Rec("maintenance", rm.lengthKm * MAINTENANCE_PER_KM,
                  rm.lanes, rm.lanes)>>

(***************************************************************************)
(* PriorityScorer: round(frequency*40 + maxCongestion*30 + consistency*20  *)
(* + trendBonus*10), consistency = 1 - stddev(weekly averages) clamped to  *)
(* [0,1].  The standard deviation is irrational in general, so the score   *)
(* is found by deciding "score >= k" exactly, with integers only.          *)
(***************************************************************************)
\* ten times the trend bonus
TrendBonus10(trend) ==
    CASE trend = "increasing" -> 10
      [] trend = "stable" -> 5
      [] OTHER -> 0

\* T * sqrt(n) <= b, for T > 0, n >= 0 and s the floor of sqrt(n)
SqrtLE(T, n, s, b) ==
    LET q == b \div T
        r == b % T
    IN IF b < 0 THEN FALSE
       ELSE IF s * s = n THEN T * s <= b
       ELSE IF q > s THEN TRUE
       ELSE IF q < s THEN FALSE
       ELSE T * T * (n - s * s) <= 2 * T * s * r + r * r

\* the weekly averages over a common denominator: value k is
\* val[k] / (100 * den) as a fraction of full congestion
WeeklyScaled(wa) ==
    LET den == LcmOver(DOMAIN wa, [k \in DOMAIN wa |-> wa[k].count])
    IN [den |-> den,
        val |-> [k \in DOMAIN wa |-> wa[k].sum * (den \div wa[k].count)]]

\* cnt^2 * (100*den)^2 * variance of the weekly averages (population)
WeeklySpread(ws) ==
    LET cnt == Cardinality(DOMAIN ws.val)
        sq  == SumOver(DOMAIN ws.val,
                       [k \in DOMAIN ws.val |-> ws.val[k] * ws.val[k]])
        sm  == SumOver(DOMAIN ws.val, ws.val)
    IN cnt * sq - sm * sm

\* a slip that gives no consistency points when no weekly average is known
score_noweekly0(p, m) ==
    LET ws   == WeeklyScaled(p.weeklyAverage)
        cnt  == Cardinality(DOMAIN p.weeklyAverage)
        N    == WeeklySpread(ws)
        s    == ISqrt(N)
        t    == p.freqDen
        part == 400 * p.freqNum + 3 * m.maxCongestion * t
                + (10 * TrendBonus10(p.trend) + 5) * t
        unit == 100 * cnt * ws.den
        A    == (part + 200 * t) * cnt * ws.den
        D    == 10 * t * cnt * ws.den
        hi   == (A - 2 * t * s) \div D
    IN IF cnt = 0 THEN part \div (10 * t)
       ELSE IF N >= unit * unit THEN part \div (10 * t)
       ELSE IF SqrtLE(2 * t, N, s, A - hi * D) THEN hi
       ELSE hi - 1

\* a slip that weighs the trend by 20 points instead of 10
score_trend20(p, m) ==
    LET ws   == WeeklyScaled(p.weeklyAverage)
        cnt  == Cardinality(DOMAIN p.weeklyAverage)
        N    == WeeklySpread(ws)
        s    == ISqrt(N)
        t    == p.freqDen
        part == 400 * p.freqNum + 3 * m.maxCongestion * t
                + (20 * TrendBonus10(p.trend) + 5) * t
        unit == 100 * cnt * ws.den
        A    == (part + 200 * t) * cnt * ws.den
        D    == 10 * t * cnt * ws.den
        hi   == (A - 2 * t * s) \div D
    IN IF cnt = 0 THEN (part + 200 * t) \div (10 * t)
       ELSE IF N >= unit * unit THEN part \div (10 * t)
       ELSE IF SqrtLE(2 * t, N, s, A - hi * D) THEN hi
       ELSE hi - 1

\* With t = freqDen, 10*t*(unrounded score) = part + 200*t*consistency and
\* consistency = 1 - sqrt(N)/unit; the score is the largest k whose
\* k - 1/2 the unrounded score reaches (halves round up).
score(p, m) ==
    LET ws   == WeeklyScaled(p.weeklyAverage)
        cnt  == Cardinality(DOMAIN p.weeklyAverage)
        N    == WeeklySpread(ws)
        s    == ISqrt(N)
        t    == p.freqDen
        part == 400 * p.freqNum + 3 * m.maxCongestion * t
                + (10 * TrendBonus10(p.trend) + 5) * t
        unit == 100 * cnt * ws.den
        A    == (part + 200 * t) * cnt * ws.den
        D    == 10 * t * cnt * ws.den
        hi   == (A - 2 * t * s) \div D
    IN IF cnt = 0 THEN (part + 200 * t) \div (10 * t)
       ELSE IF N >= unit * unit THEN part \div (10 * t)
       ELSE IF SqrtLE(2 * t, N, s, A - hi * D) THEN hi
       ELSE hi - 1

\* the medium band taken for low
TierOfScoreNoMedium(sc) ==
    IF sc >= 80 THEN "critical"
    ELSE IF sc >= 60 THEN "high"
    ELSE IF sc >= 20 THEN "low"
    ELSE "monitor"

\* medium and low exchanged
TierOfScoreShifted(sc) ==
    IF sc >= 80 THEN "critical"
    ELSE IF sc >= 60 THEN "high"
    ELSE IF sc >= 40 THEN "low"
    ELSE IF sc >= 20 THEN "medium"
    ELSE "monitor"

TierOfScore(sc) ==
    IF sc >= 80 THEN "critical"
    ELSE IF sc >= 60 THEN "high"
    ELSE IF sc >= 40 THEN "medium"
    ELSE IF sc >= 20 THEN "low"
    ELSE "monitor"

calculate_priority(p, m) == TierOfScore(score(p, m))

(***************************************************************************)
(* Inputs: the sample sets and road metadata the analysis is run on.       *)
(***************************************************************************)
\* the nondecreasing sequences of k congestion levels (one day's samples)
RECURSIVE SortedSeqs(_)
SortedSeqs(k) ==
    IF k = 0 THEN {<<>>}
    ELSE {Append(q, v) : <<q, v>> \in
            {x \in SortedSeqs(k - 1) \X Levels :
                x[1] = <<>> \/ x[1][Len(x[1])] <= x[2]}}

\* every assignment of samples to n days with at most b samples in all
RECURSIVE SampleSets(_, _)
SampleSets(n, b) ==
    IF n = 0 THEN {<<>>}
    ELSE UNION {{Append(x[1], x[2]) :
                    x \in SampleSets(n - 1, b - k) \X SortedSeqs(k)} :
                k \in 0..b}

\* 30 days, every day at congestion 0.80
Scenario1 == [d \in 1..30 |-> <<80>>]

\* 30 days, two days above 0.70, the rest at 0.30
Scenario2 == [d \in 1..30 |-> IF d \in {10, 20} THEN <<80>> ELSE <<30>>]

\* MG Road: 24 of 30 days high-traffic, average 0.75, maximum 0.92, rising
Scenario3 ==
    [d \in 1..30 |-> IF d <= 6 THEN <<53>>
                     ELSE IF d = 30 THEN <<92>> ELSE <<80>>]

\* 30 days: the first 22 at congestion 0.75, the others at 0.30
TestFrequencyDays == [d \in 1..30 |-> IF d <= 22 THEN <<75>> ELSE <<30>>]

ScenarioSampleSets == {Scenario1, Scenario2, Scenario3, TestFrequencyDays}

Road(type, hasLength, len, lanes) ==
    [roadType |-> type, hasLength |-> hasLength, lengthKm |-> len,
     lanes |-> lanes]

MGRoad == Road("primary", TRUE, 8, 2)

Metas ==
    {MGRoad,
     Road("highway", TRUE, 10, 4),
     Road("highway", TRUE, 10, 6),
     Road("tertiary", TRUE, 3, 2),
     Road("secondary", TRUE, 5, 3),
     Road(None, TRUE, 5, 2),
     Road("primary", FALSE, 0, 2)}

\* road analyses handed to calculate_priority directly: frequency, trend,
\* maximum congestion and up to MaxWeekDays weekly averages, each in [0,1]
FrequencyInputs == {<<0, 1>>, <<1, 5>>, <<1, 2>>, <<4, 5>>, <<1, 1>>}

Trends == {"increasing", "stable", "decreasing"}

MaxCongestionInputs == {0, 30, 92, 100}

WeekLevels == {0, 50, 100}

WeeklyInputs ==
    UNION {[0..(k - 1) -> {[sum |-> v, count |-> 1] : v \in WeekLevels}] :
            k \in 0..MaxWeekDays}

RoadAnalysisPattern(f, trend, wa) ==
    [highTrafficDayCount |-> f[1], totalDays |-> f[2],
     freqNum |-> f[1], freqDen |-> f[2],
     trend |-> trend, weeklyAverage |-> wa]

RoadAnalysisMetrics(avg, max) ==
    [avgNum |-> avg, avgDen |-> 1, maxCongestion |-> max]

\* frequency_score 0.8, increasing, avg_congestion 0.75, max_congestion
\* 0.92, no weekly averages
TestPriorityPattern == RoadAnalysisPattern(<<4, 5>>, "increasing", <<>>)

TestPriorityMetrics == RoadAnalysisMetrics(75, 92)

(***************************************************************************)
(* analyze_road_segment as a state machine: pattern analysis, decision     *)
(* matrix, recommendations, priority.  RaiseDay re-runs the analysis on    *)
(* the same road with one sample raised.                                   *)
(***************************************************************************)
Init ==
    /\ \/ windowDays = SmallWindow /\ samples \in SampleSets(SmallWindow, MaxSamples)
       \/ windowDays = 30 /\ samples \in ScenarioSampleSets
    /\ meta = None
    /\ pc = "start"
    /\ pattern = None
    /\ metrics = None
    /\ decision = None
    /\ recommendations = <<>>
    /\ priorityScore = 0
    /\ priority = None
    /\ raised = FALSE
    /\ prevScore = 0
    /\ reqDays = 0
    /\ areaRoads = <<>>
    /\ effDays = 0
    /\ response = NoResponse
    /\ prevResponse = NoResponse
    /\ reordered = FALSE
    /\ frontIn = NoPage
    /\ frontCalls = 0
    /\ analysisResults = NoResults
    /\ prevAnalysisResults = NoResults
    /\ chartsHourly = <<>>
    /\ prevChartsHourly = <<>>
    /\ RouteIdle
    /\ ListIdle
    /\ DashIdle

AnalyzeRoadSegment ==
    /\ pc = "start"
    /\ LET r == analyzePattern(samples, windowDays)
       IN /\ pattern' = r.pattern
          /\ metrics' = r.metrics
    /\ pc' = "analyzed"
    /\ UNCHANGED <<windowDays, samples, meta, decision, recommendations,
                   priorityScore, priority, raised, prevScore>>
    /\ UNCHANGED areaVars
    /\ UNCHANGED frontVars
    /\ UNCHANGED clientVars

DetermineInterventionNeed ==
    /\ pc = "analyzed"
    /\ decision' = determine_intervention_need(pattern, metrics)
    /\ pc' = "classified"
    /\ UNCHANGED <<windowDays, samples, meta, pattern, metrics,
                   recommendations, priorityScore, priority, raised,
                   prevScore>>
    /\ UNCHANGED areaVars
    /\ UNCHANGED frontVars
    /\ UNCHANGED clientVars

\* the road's metadata is read from the road registry, then the
\* recommendations are generated from it
GenerateRecommendations ==
    /\ pc = "classified"
    /\ \E rm \in (IF raised THEN {meta} ELSE Metas) :
         /\ meta' = rm
         /\ recommendations' = generate(rm, pattern, metrics, decision.tier)
    /\ pc' = "generated"
    /\ UNCHANGED <<windowDays, samples, pattern, metrics, decision,
                   priorityScore, priority, raised, prevScore>>
    /\ UNCHANGED areaVars
    /\ UNCHANGED frontVars
    /\ UNCHANGED clientVars

\* a slip that labels every road by its score
CalculatePriorityUnguarded ==
    /\ pc = "generated"
    /\ priorityScore' = score(pattern, metrics)
    /\ priority' = calculate_priority(pattern, metrics)
    /\ pc' = "done"
    /\ UNCHANGED <<windowDays, samples, meta, pattern, metrics, decision,
                   recommendations, raised, prevScore>>
    /\ UNCHANGED areaVars
    /\ UNCHANGED frontVars
    /\ UNCHANGED clientVars

\* the priority label is calculated for roads that need an intervention;
\* the other roads are monitored
CalculatePriority ==
    /\ pc = "generated"
    /\ priorityScore' = score(pattern, metrics)
    /\ priority' = IF decision.needs
                   THEN calculate_priority(pattern, metrics)
                   ELSE "monitor"
    /\ pc' = "done"
    /\ UNCHANGED <<windowDays, samples, meta, pattern, metrics, decision,
                   recommendations, raised, prevScore>>
    /\ UNCHANGED areaVars
    /\ UNCHANGED frontVars
    /\ UNCHANGED clientVars

\* one sample of one day gets a higher congestion value, all else fixed,
\* and the road (MG Road) is analysed again
RaiseDay ==
    /\ pc = "done"
    /\ ~raised
    /\ meta = MGRoad
    /\ \E d \in DOMAIN samples : \E i \in 1..Len(samples[d]) :
         \E v \in Levels \cup {100} :
            /\ v > samples[d][i]
            /\ samples' = [samples EXCEPT ![d][i] = v]
    /\ prevScore' = priorityScore
    /\ raised' = TRUE
    /\ pc' = "start"
    /\ pattern' = None
    /\ metrics' = None
    /\ decision' = None
    /\ recommendations' = <<>>
    /\ priorityScore' = 0
    /\ priority' = None
    /\ UNCHANGED <<windowDays, meta>>
    /\ UNCHANGED areaVars
    /\ UNCHANGED frontVars
    /\ UNCHANGED clientVars

Next ==
    \/ AnalyzeRoadSegment
    \/ DetermineInterventionNeed
    \/ GenerateRecommendations
    \/ CalculatePriority

Spec == Init /\ [][Next]_vars

NextRaise ==
    \/ Next
    \/ RaiseDay

SpecRaise == Init /\ [][NextRaise]_vars

(***************************************************************************)
(* calculate_priority called on a road analysis of the caller's making.    *)
(***************************************************************************)
InitScore ==
    /\ windowDays = 30
    /\ samples = <<>>
    /\ meta = None
    /\ pc = "score"
    /\ pattern \in {RoadAnalysisPattern(f, tr, wa) :
                        f \in FrequencyInputs, tr \in Trends,
                        wa \in WeeklyInputs}
    /\ metrics \in {RoadAnalysisMetrics(75, mx) : mx \in MaxCongestionInputs}
    /\ decision = None
    /\ recommendations = <<>>
    /\ priorityScore = 0
    /\ priority = None
    /\ raised = FALSE
    /\ prevScore = 0
    /\ reqDays = 0
    /\ areaRoads = <<>>
    /\ effDays = 0
    /\ response = NoResponse
    /\ prevResponse = NoResponse
    /\ reordered = FALSE
    /\ frontIn = NoPage
    /\ frontCalls = 0
    /\ analysisResults = NoResults
    /\ prevAnalysisResults = NoResults
    /\ chartsHourly = <<>>
    /\ prevChartsHourly = <<>>
    /\ RouteIdle
    /\ ListIdle
    /\ DashIdle

ScoreRoadAnalysis ==
    /\ pc = "score"
    /\ priorityScore' = score(pattern, metrics)
    /\ priority' = calculate_priority(pattern, metrics)
    /\ pc' = "scored"
    /\ UNCHANGED <<windowDays, samples, meta, pattern, metrics, decision,
                   recommendations, raised, prevScore>>
    /\ UNCHANGED areaVars
    /\ UNCHANGED frontVars
    /\ UNCHANGED clientVars

NextScore == ScoreRoadAnalysis

SpecScore == InitScore /\ [][NextScore]_vars

(***************************************************************************)
(* The analysis API.  An area request names a window and covers the roads  *)
(* of the area in the order the road registry returns them; every road has *)
(* a 30-day traffic history, or its history query fails.                   *)
(***************************************************************************)
MaxRoads == 3

MaxRanked == 6

HistoryDays == 30

ValidWindows == {7, 30, 90, 365}

DefaultDays == 30

HOTSPOT_LIMIT == 5

\* 30 days: ten days at 0.90, then twenty days at 0.30
FadingDays == [d \in 1..30 |-> IF d <= 10 THEN <<90>> ELSE <<30>>]

RoadDatum(history, rm, fails) ==
    [history |-> history, meta |-> rm, fails |-> fails]

\* the traffic profiles a road of the area can have
Profiles == {"busy", "calm", "fading", "unreadable"}

RoadCatalogue ==
    [k \in Profiles |->
        CASE k = "busy" -> RoadDatum(Scenario3, MGRoad, FALSE)
          [] k = "calm" ->
                RoadDatum(Scenario2, Road("secondary", TRUE, 5, 3), FALSE)
          [] k = "fading" ->
                RoadDatum(FadingDays, Road("tertiary", TRUE, 3, 2), FALSE)
          [] OTHER -> RoadDatum(<<>>, Road("primary", TRUE, 6, 2), TRUE)]

RequestedDays == {7, 30, 14}

\* the samples of the last w days, as days 1..w of the window
query_traffic_history(history, w) ==
    [d \in 1..w |-> IF d + HistoryDays - w >= 1
                    THEN history[d + HistoryDays - w]
                    ELSE <<>>]

\* the whole pipeline on one road
analyze_road_segment(s, w, rm) ==
    LET r    == analyzePattern(s, w)
        d    == determine_intervention_need(r.pattern, r.metrics)
        recs == generate(rm, r.pattern, r.metrics, d.tier)
        sc   == score(r.pattern, r.metrics)
    IN [failed |-> FALSE,
        pattern |-> r.pattern,
        metrics |-> r.metrics,
        needs |-> d.needs,
        tier |-> d.tier,
        recommendations |-> recs,
        priorityScore |-> sc,
        priority |-> IF d.needs THEN TierOfScore(sc) ELSE "monitor"]

\* the analyses of the catalogued roads, per window
CatalogueAnalysis ==
    [w \in RequestedDays \cup {DefaultDays} |->
        [k \in {x \in Profiles : ~RoadCatalogue[x].fails} |->
            analyze_road_segment(
                query_traffic_history(RoadCatalogue[k].history, w), w,
                RoadCatalogue[k].meta)]]

FailedAnalysis == [failed |-> TRUE]

RECURSIVE RecCost(_)
RecCost(recs) ==
    IF recs = <<>> THEN 0
    ELSE Head(recs).estimatedCost + RecCost(Tail(recs))

\* a ranks before b: higher frequency*0.6 + avgCongestion*0.4, and on a
\* tie the higher priority score
CombinedNum(a) ==
    600 * a.pattern.freqNum * a.metrics.avgDen
    + 4 * a.metrics.avgNum * a.pattern.freqDen

CombinedDen(a) == a.pattern.freqDen * a.metrics.avgDen

RanksBefore(a, b) ==
    LET x == CombinedNum(a) * CombinedDen(b)
        y == CombinedNum(b) * CombinedDen(a)
    IN x > y \/ (x = y /\ a.priorityScore > b.priorityScore)

PhaseOf(priorityLabel) ==
    CASE priorityLabel = "critical" -> 1
      [] priorityLabel = "high" -> 2
      [] priorityLabel = "medium" -> 3
      [] OTHER -> 0

\* as: the analysed roads, each [id, analysis], in input order
generate_area_insights(as) ==
    LET n == Len(as)
        \* place of every road in a stable sort by rank
        place == [i \in 1..n |->
                    1 + Cardinality({j \in 1..n :
                        \/ RanksBefore(as[j].analysis, as[i].analysis)
                        \/ /\ ~RanksBefore(as[i].analysis, as[j].analysis)
                           /\ j < i})]
        top == IF n < HOTSPOT_LIMIT THEN n ELSE HOTSPOT_LIMIT
        cost == [i \in 1..n |-> RecCost(as[i].analysis.recommendations)]
        phase == [i \in 1..n |->
                    IF as[i].analysis.needs
                    THEN PhaseOf(as[i].analysis.priority) ELSE 0]
        members(ph) == SelectSeq([i \in 1..n |-> i],
                                 LAMBDA i : phase[i] = ph)
    IN [total_roads_analyzed |-> n,
        roads_needing_intervention |->
            Cardinality({i \in 1..n : as[i].analysis.needs}),
        total_estimated_cost |-> SumOver(1..n, cost),
        hotspots |->
            [k \in 1..top |-> as[CHOOSE i \in 1..n : place[i] = k].id],
        recommended_phasing |->
            [ph \in 1..3 |->
                LET ms == members(ph)
                IN [roads |-> [k \in 1..Len(ms) |-> as[ms[k]].id],
                    subtotal |->
                        SumOver({ms[k] : k \in 1..Len(ms)}, cost)]]]

\* a slip that lets the failure of one road end the whole analysis
analyze_area_abort(roads, w) ==
    LET results == [i \in 1..Len(roads) |->
                      [id |-> roads[i].id,
                       analysis |->
                           IF RoadCatalogue[roads[i].profile].fails
                           THEN FailedAnalysis
                           ELSE CatalogueAnalysis[w][roads[i].profile]]]
    IN IF roads = <<>> \/ \E i \in 1..Len(roads) : results[i].analysis.failed
       THEN [raised |-> TRUE]
       ELSE [raised |-> FALSE,
             success |-> TRUE,
             roads |-> results,
             area_insights |-> generate_area_insights(results)]

\* every road is analysed on its own; a road whose analysis fails is
\* reported as failed and left out of the insights.  An area without
\* roads is rejected.
analyze_area(roads, w) ==
    LET results == [i \in 1..Len(roads) |->
                      [id |-> roads[i].id,
                       analysis |->
                           IF RoadCatalogue[roads[i].profile].fails
                           THEN FailedAnalysis
                           ELSE CatalogueAnalysis[w][roads[i].profile]]]
        ok == SelectSeq(results, LAMBDA r : ~r.analysis.failed)
    IN IF roads = <<>> THEN [raised |-> TRUE]
       ELSE [raised |-> FALSE,
             success |-> TRUE,
             roads |-> results,
             area_insights |-> generate_area_insights(ok)]

\* the body of the except branch: no roads, empty insights
ErrorResponse ==
    [status |-> 500, kind |-> "error", success |-> FALSE, roads |-> <<>>,
     area_insights |-> <<>>]

get_area_analysis(days, roads) ==
    LET w == IF days \notin ValidWindows THEN DefaultDays ELSE days
        result == analyze_area(roads, w)
    IN IF result.raised THEN ErrorResponse
       ELSE [status |-> 200, kind |-> "area", success |-> result.success,
             roads |-> result.roads, area_insights |-> result.area_insights]

get_road_analysis(days, road) ==
    IF RoadCatalogue[road.profile].fails
    THEN [status |-> 500, kind |-> "road_error", success |-> FALSE]
    ELSE [status |-> 200, kind |-> "road", success |-> TRUE,
          roads |-> <<[id |-> road.id,
                       analysis |-> CatalogueAnalysis[days][road.profile]]>>,
          area_insights |-> <<>>]

\* the lists of n roads with profiles in P; a road's id is its place in
\* the list the registry first returns
RECURSIVE RoadLists(_, _)
RoadLists(n, P) ==
    IF n = 0 THEN {<<>>}
    ELSE {Append(q, [id |-> n, profile |-> k]) :
            q \in RoadLists(n - 1, P), k \in P}

InitArea ==
    /\ windowDays = 0
    /\ samples = <<>>
    /\ meta = None
    /\ pc = "idle"
    /\ pattern = None
    /\ metrics = None
    /\ decision = None
    /\ recommendations = <<>>
    /\ priorityScore = 0
    /\ priority = None
    /\ raised = FALSE
    /\ prevScore = 0
    /\ reqDays \in RequestedDays
    /\ areaRoads \in UNION {RoadLists(n, Profiles) : n \in 0..MaxRoads}
    /\ effDays = 0
    /\ response = NoResponse
    /\ prevResponse = NoResponse
    /\ reordered = FALSE
    /\ frontIn = NoPage
    /\ frontCalls = 0
    /\ analysisResults = NoResults
    /\ prevAnalysisResults = NoResults
    /\ chartsHourly = <<>>
    /\ prevChartsHourly = <<>>
    /\ RouteIdle
    /\ ListIdle
    /\ DashIdle

\* GET /api/analysis/<area_id>?days=N
GetAreaAnalysis ==
    /\ response = NoResponse
    /\ effDays' = IF reqDays \notin ValidWindows THEN DefaultDays ELSE reqDays
    /\ response' = get_area_analysis(reqDays, areaRoads)
    /\ UNCHANGED <<reqDays, areaRoads, prevResponse, reordered>>
    /\ UNCHANGED roadVars
    /\ UNCHANGED frontVars
    /\ UNCHANGED clientVars

\* GET /api/analysis/<area_id>/road/<road_id>?days=N
GetRoadAnalysis ==
    /\ response = NoResponse
    /\ areaRoads # <<>>
    /\ response' = get_road_analysis(reqDays, areaRoads[1])
    /\ effDays' = reqDays
    /\ UNCHANGED <<reqDays, areaRoads, prevResponse, reordered>>
    /\ UNCHANGED roadVars
    /\ UNCHANGED frontVars
    /\ UNCHANGED clientVars

\* the road registry returns the same roads in another order (two
\* neighbours exchanged) and the area is requested again
ReorderRoads ==
    /\ response.status = 200
    /\ response.kind = "area"
    /\ ~reordered
    /\ \E i \in 1..(Len(areaRoads) - 1) :
          areaRoads' = [areaRoads EXCEPT ![i] = areaRoads[i + 1],
                                         ![i + 1] = areaRoads[i]]
    /\ prevResponse' = response
    /\ response' = NoResponse
    /\ reordered' = TRUE
    /\ UNCHANGED <<reqDays, effDays>>
    /\ UNCHANGED roadVars
    /\ UNCHANGED frontVars
    /\ UNCHANGED clientVars

NextArea ==
    \/ GetAreaAnalysis
    \/ GetRoadAnalysis

SpecArea == InitArea /\ [][NextArea]_vars

\* the area is requested, the registry returns its roads in another order
\* and the area is requested again
InitRanking ==
    /\ windowDays = 0
    /\ samples = <<>>
    /\ meta = None
    /\ pc = "idle"
    /\ pattern = None
    /\ metrics = None
    /\ decision = None
    /\ recommendations = <<>>
    /\ priorityScore = 0
    /\ priority = None
    /\ raised = FALSE
    /\ prevScore = 0
    /\ reqDays = DefaultDays
    /\ areaRoads \in UNION {RoadLists(n, Profiles \ {"unreadable"}) :
                                n \in 0..MaxRanked}
    /\ effDays = 0
    /\ response = NoResponse
    /\ prevResponse = NoResponse
    /\ reordered = FALSE
    /\ frontIn = NoPage
    /\ frontCalls = 0
    /\ analysisResults = NoResults
    /\ prevAnalysisResults = NoResults
    /\ chartsHourly = <<>>
    /\ prevChartsHourly = <<>>
    /\ RouteIdle
    /\ ListIdle
    /\ DashIdle

NextRanking ==
    \/ GetAreaAnalysis
    \/ ReorderRoads

SpecRanking == InitRanking /\ [][NextRanking]_vars

(***************************************************************************)
(* The browser pages.  On the map page analyze() posts the drawn region    *)
(* and, when the request fails, shows getMockAnalysisData(); on the        *)
(* dashboard updateHourlyPatternChart draws the selected road's hourly     *)
(* pattern.  Math.random() is a free choice among RandomDraws (percent).   *)
(***************************************************************************)
MaxMockFeatures == 1

MaxCalls == 2

RandomDraws == {0, 90}

PeakHourInputs == {<<>>, <<8>>, <<8, 17>>}

COUNTRY_WEIGHTS_IN == [congestion |-> 40, safety |-> 35, growth |-> 15,
                       quality |-> 10]

BASE_LEVEL == 20

\* one mock road from its four draws; scores in 1/10000, isi in 1/1000000
MockFeature(i, r) ==
    LET congestion == 90 * r[1] + 1000
        safety     == 80 * r[2] + 1000
        growth     == 90 * r[3] + 1000
        quality    == 70 * r[4] + 1000
        isiScore   == COUNTRY_WEIGHTS_IN.congestion * congestion
                      + COUNTRY_WEIGHTS_IN.safety * safety
                      + COUNTRY_WEIGHTS_IN.growth * growth
                      + COUNTRY_WEIGHTS_IN.quality * quality
    IN [segment_id |-> i,
        isi_score |-> isiScore,
        congestion_score |-> congestion,
        safety_score |-> safety,
        growth_pressure_score |-> growth,
        road_quality_score |-> quality,
        priority |-> IF isiScore > 650000 THEN "HIGH"
                     ELSE IF isiScore > 450000 THEN "MEDIUM" ELSE "LOW",
        recommendation |-> IF isiScore > 600000
                           THEN "Widen road or add flyover"
                           ELSE "Routine maintenance"]

\* draws: for every mock road the four values Math.random() returned
getMockAnalysisData(draws) ==
    LET features == [i \in 1..Len(draws) |-> MockFeature(i, draws[i])]
    IN [source |-> "mock",
        features |-> features,
        recommendations |->
            SelectSeq(features, LAMBDA f : f.priority # "LOW"),
        critical_segments |->
            Cardinality({i \in 1..Len(features) :
                            features[i].isi_score > 650000})]

\* what the server answers for the drawn region
ServerAnalysis == [source |-> "server", features |-> <<>>,
                   recommendations |-> <<>>, critical_segments |-> 0]

\* the 24 hourly levels: the base level, and for every peak hour
\* 0.7 + Math.random() * 0.2
HourlyData(peakHours, draws) ==
    [h \in 0..23 |->
        IF \E k \in 1..Len(peakHours) : peakHours[k] = h
        THEN LET k == CHOOSE j \in 1..Len(peakHours) :
                        /\ peakHours[j] = h
                        /\ \A l \in 1..Len(peakHours) :
                              peakHours[l] = h => l <= j
             IN 70 + (draws[k] * 20) \div 100
        ELSE BASE_LEVEL]

InitPages ==
    /\ windowDays = 0
    /\ samples = <<>>
    /\ meta = None
    /\ pc = "idle"
    /\ pattern = None
    /\ metrics = None
    /\ decision = None
    /\ recommendations = <<>>
    /\ priorityScore = 0
    /\ priority = None
    /\ raised = FALSE
    /\ prevScore = 0
    /\ reqDays = 0
    /\ areaRoads = <<>>
    /\ effDays = 0
    /\ response = NoResponse
    /\ prevResponse = NoResponse
    /\ reordered = FALSE
    /\ frontIn \in
          {[page |-> "map", polygonDrawn |-> pd, requestFails |-> rf] :
              pd \in BOOLEAN, rf \in BOOLEAN}
          \cup {[page |-> "dashboard", chartElement |-> ce, peak_hours |-> ph] :
                    ce \in BOOLEAN, ph \in PeakHourInputs}
    /\ frontCalls = 0
    /\ analysisResults = NoResults
    /\ prevAnalysisResults = NoResults
    /\ chartsHourly = <<>>
    /\ prevChartsHourly = <<>>
    /\ RouteIdle
    /\ ListIdle
    /\ DashIdle

\* analyze() on the map page, with the same region and the same server
Analyze ==
    /\ frontIn.page = "map"
    /\ frontCalls < MaxCalls
    /\ frontCalls' = frontCalls + 1
    /\ prevAnalysisResults' = analysisResults
    /\ IF ~frontIn.polygonDrawn
       THEN analysisResults' = analysisResults
       ELSE IF ~frontIn.requestFails
       THEN analysisResults' = ServerAnalysis
       ELSE \E draws \in [1..MaxMockFeatures -> [1..4 -> RandomDraws]] :
               analysisResults' = getMockAnalysisData(draws)
    /\ UNCHANGED <<frontIn, chartsHourly, prevChartsHourly>>
    /\ UNCHANGED roadVars
    /\ UNCHANGED areaVars
    /\ UNCHANGED clientVars

\* updateHourlyPatternChart(road) on the dashboard, for the same road
UpdateHourlyPatternChart ==
    /\ frontIn.page = "dashboard"
    /\ frontCalls < MaxCalls
    /\ frontCalls' = frontCalls + 1
    /\ prevChartsHourly' = chartsHourly
    /\ IF ~frontIn.chartElement
       THEN chartsHourly' = chartsHourly
       ELSE \E draws \in [1..Len(frontIn.peak_hours) -> RandomDraws] :
               chartsHourly' = HourlyData(frontIn.peak_hours, draws)
    /\ UNCHANGED <<frontIn, analysisResults, prevAnalysisResults>>
    /\ UNCHANGED roadVars
    /\ UNCHANGED areaVars
    /\ UNCHANGED clientVars

NextPages ==
    \/ Analyze
    \/ UpdateHourlyPatternChart

SpecPages == InitPages /\ [][NextPages]_vars

(***************************************************************************)
(* The map page's recommendation list: updateRecommendations sorts a copy  *)
(* of the recommendations with its comparator and logs the first five.     *)
(***************************************************************************)
MaxRecommendations == 6

TOP_COUNT == 5

RecommendationPriorities == {"HIGH", "MEDIUM", "LOW"}

\* a property the object does not have
UNDEFINED == -1

\* a || b for numbers: b when a is 0 or undefined
JsOr(a, b) == IF a = 0 \/ a = UNDEFINED THEN b ELSE a

\* order[priority] of the comparator
OrderOf(prio) ==
    CASE prio = "HIGH" -> 0
      [] prio = "MEDIUM" -> 1
      [] prio = "LOW" -> 2
      [] OTHER -> UNDEFINED

\* the comparator of the sort: negative when a goes before b
CompareRecommendations(a, b) ==
    JsOr(OrderOf(a.priority), 2) - JsOr(OrderOf(b.priority), 2)

\* x put behind the last element that does not go after it
InsertSorted(s, x) ==
    LET before == {i \in 1..Len(s) : CompareRecommendations(s[i], x) <= 0}
        k == IF before = {} THEN 0
             ELSE CHOOSE i \in before : \A j \in before : j <= i
    IN [i \in 1..(Len(s) + 1) |->
           IF i <= k THEN s[i] ELSE IF i = k + 1 THEN x ELSE s[i - 1]]

\* Array.prototype.sort with the comparator: a stable sort
RECURSIVE SortRecommendations(_)
SortRecommendations(s) ==
    IF s = <<>> THEN <<>>
    ELSE InsertSorted(SortRecommendations(SubSeq(s, 1, Len(s) - 1)),
                      s[Len(s)])

updateRecommendations(recs) ==
    LET list == SortRecommendations(recs)
    IN [called |-> TRUE,
        list |-> list,
        top |-> SubSeq(list, 1, IF Len(list) < TOP_COUNT
                                THEN Len(list) ELSE TOP_COUNT)]

InitList ==
    /\ windowDays = 0
    /\ samples = <<>>
    /\ meta = None
    /\ pc = "idle"
    /\ pattern = None
    /\ metrics = None
    /\ decision = None
    /\ recommendations = <<>>
    /\ priorityScore = 0
    /\ priority = None
    /\ raised = FALSE
    /\ prevScore = 0
    /\ reqDays = 0
    /\ areaRoads = <<>>
    /\ effDays = 0
    /\ response = NoResponse
    /\ prevResponse = NoResponse
    /\ reordered = FALSE
    /\ frontIn = NoPage
    /\ frontCalls = 0
    /\ analysisResults = NoResults
    /\ prevAnalysisResults = NoResults
    /\ chartsHourly = <<>>
    /\ prevChartsHourly = <<>>
    /\ RouteIdle
    /\ DashIdle
    /\ \E n \in 0..MaxRecommendations :
          \E prios \in [1..n -> RecommendationPriorities] :
             recommendationsIn =
                [i \in 1..n |-> [road_name |-> i, priority |-> prios[i]]]
    /\ sorted = NotSorted

\* updateRecommendations(recommendations)
UpdateRecommendations ==
    /\ ~sorted.called
    /\ sorted' = updateRecommendations(recommendationsIn)
    /\ UNCHANGED recommendationsIn
    /\ UNCHANGED <<roadVars, areaVars, frontVars, routeVars, dashVars>>

NextList == UpdateRecommendations

SpecList == InitList /\ [][NextList]_vars

(***************************************************************************)
(* The route engine's API cache.  getGoogleMapsRoute is asynchronous: it   *)
(* looks the key up, and on a miss issues a fetch whose answer arrives     *)
(* later; other calls and the clock go on in between.  Date.now() is the   *)
(* clock `now`, in milliseconds.                                           *)
(***************************************************************************)
CACHE_TTL == 300000

\* the clock advances in steps of TICK_MS up to MaxTicks steps
TICK_MS == 100000

MaxTicks == 5

\* calls whose fetch is pending at the same time
MaxFetches == 2

Places == {[lat |-> 1, lng |-> 11], [lat |-> 11, lng |-> 1]}

Depot == [lat |-> 0, lng |-> -1]

\* what a fetch can end in: a body with a route, a body without one, a
\* route without legs, a rejected fetch or an unreadable body
ResponseKinds == {"route", "no_route", "malformed", "network_error"}

cacheKey(origin, destination) ==
    "route_" \o ToString(origin.lat) \o "_" \o ToString(origin.lng)
        \o "_" \o ToString(destination.lat)
        \o "_" \o ToString(destination.lng)

CacheKeys == {cacheKey(o, Depot) : o \in Places}

\* apiCache.has(key) is false
NoEntry == [present |-> FALSE]

\* the null that getGoogleMapsRoute returns
Null == [route |-> "null"]

\* the result object built from the first route of the body
RouteResult(key) == [route |-> key]

\* a slip that serves an entry that is exactly CACHE_TTL old
IsFreshInclusive(entry, t) == t - entry.timestamp <= CACHE_TTL

IsFresh(entry, t) == t - entry.timestamp < CACHE_TTL

InitRoute ==
    /\ windowDays = 0
    /\ samples = <<>>
    /\ meta = None
    /\ pc = "idle"
    /\ pattern = None
    /\ metrics = None
    /\ decision = None
    /\ recommendations = <<>>
    /\ priorityScore = 0
    /\ priority = None
    /\ raised = FALSE
    /\ prevScore = 0
    /\ reqDays = 0
    /\ areaRoads = <<>>
    /\ effDays = 0
    /\ response = NoResponse
    /\ prevResponse = NoResponse
    /\ reordered = FALSE
    /\ frontIn = NoPage
    /\ frontCalls = 0
    /\ analysisResults = NoResults
    /\ prevAnalysisResults = NoResults
    /\ chartsHourly = <<>>
    /\ prevChartsHourly = <<>>
    /\ now = 0
    /\ apiCache = [k \in CacheKeys |-> NoEntry]
    /\ fetches = <<>>
    /\ lastStart = NoCall
    /\ lastReturn = NoCall
    /\ ListIdle
    /\ DashIdle

\* Date.now() moves on
Tick ==
    /\ now < MaxTicks * TICK_MS
    /\ now' = now + TICK_MS
    /\ UNCHANGED <<apiCache, fetches, lastStart, lastReturn>>
    /\ UNCHANGED <<roadVars, areaVars, frontVars, listVars, dashVars>>

\* getGoogleMapsRoute(origin, destination) up to its return or its await
GetGoogleMapsRoute ==
    \E origin \in Places :
       LET key    == cacheKey(origin, Depot)
           cached == apiCache[key]
           had    == cached # NoEntry
           served == had /\ IsFresh(cached, now)
       IN /\ served \/ Len(fetches) < MaxFetches
          /\ lastStart' = [kind |-> "start", key |-> key, had |-> had,
                           age |-> IF had THEN now - cached.timestamp ELSE 0,
                           served |-> served]
          /\ IF served
             THEN /\ lastReturn' = [kind |-> "cached", key |-> key,
                                    value |-> cached.data,
                                    age |-> now - cached.timestamp,
                                    outcome |-> "none",
                                    cacheChanged |-> FALSE,
                                    entry |-> cached, at |-> now]
                  /\ UNCHANGED fetches
             ELSE /\ fetches' = Append(fetches, key)
                  /\ UNCHANGED lastReturn
          /\ UNCHANGED <<now, apiCache>>
          /\ UNCHANGED <<roadVars, areaVars, frontVars, listVars, dashVars>>

\* the answer to a pending fetch arrives and getGoogleMapsRoute returns
FetchReturns ==
    \E i \in 1..Len(fetches), outcome \in ResponseKinds :
       LET key == fetches[i]
           result == RouteResult(key)
       IN /\ fetches' = [j \in 1..(Len(fetches) - 1) |->
                            IF j < i THEN fetches[j] ELSE fetches[j + 1]]
          /\ IF outcome = "route"
             THEN /\ apiCache' = [apiCache EXCEPT
                                     ![key] = [present |-> TRUE,
                                               data |-> result,
                                               timestamp |-> now]]
                  /\ lastReturn' = [kind |-> "fetched", key |-> key,
                                    value |-> result, age |-> 0,
                                    outcome |-> outcome,
                                    cacheChanged |-> apiCache'[key] # apiCache[key],
                                    entry |-> apiCache'[key], at |-> now]
             ELSE /\ UNCHANGED apiCache
                  /\ lastReturn' = [kind |-> "null", key |-> key,
                                    value |-> Null, age |-> 0,
                                    outcome |-> outcome,
                                    cacheChanged |-> FALSE,
                                    entry |-> apiCache[key], at |-> now]
          /\ UNCHANGED <<now, lastStart>>
          /\ UNCHANGED <<roadVars, areaVars, frontVars, listVars, dashVars>>

NextRoute ==
    \/ Tick
    \/ GetGoogleMapsRoute
    \/ FetchReturns

SpecRoute == InitRoute /\ [][NextRoute]_vars

(***************************************************************************)
(* The analysis dashboard (AdvancedAnalysisDashboard).  A load is issued   *)
(* by init() or reloadAnalysis() and completes later, in any order with    *)
(* the other pending loads; everything a handler does between two awaits   *)
(* is one step.  Frequencies and congestion are in percent, the total      *)
(* cost of the area in tenths of a crore (452 = 45.2 crore), and the cost  *)
(* shown in the panel in tenths of the displayed unit (45 = "4.5 Cr").     *)
(***************************************************************************)
\* reloads the user triggers after the page has loaded
MaxReloads == 2

\* the values of the time-range selector that are chosen
TimeRanges == {7, 30}

PriorityBadges == {"critical", "high", "medium", "low"}

InitialFilters ==
    [timeRange |-> 30,
     roadTypes |-> {"highway", "primary", "secondary"},
     interventions |-> {"widening", "flyover", "bridge", "maintenance",
                        "signals", "planning"},
     priorities |-> PriorityBadges]

\* how a load can end: a 200 answer with the analysis, a non-OK status, a
\* 200 answer whose body is null, a rejected fetch
LoadOutcomes == {"ok", "not_ok", "null_body", "throws"}

Recommendation(type, prio) == [type |-> type, priority |-> prio]

SampleRoads ==
    <<[road_id |-> "road_mg", road_type |-> "primary", lanes |-> 2,
       needs_intervention |-> TRUE, priority |-> "high",
       frequency_score |-> 80, avg_congestion |-> 75,
       peak_hours |-> <<8, 9, 17, 18, 19>>,
       recommendations |-> <<Recommendation("widening", "high")>>]>>

\* the built-in sample data; request names the load it was substituted in
loadSampleData(request) ==
    [source |-> "sample", request |-> request, days |-> 0,
     roads |-> SampleRoads,
     area_insights |-> [total_estimated_cost |-> 452]]

\* the roads of an answer of GET /api/analysis/<area>
ApiRoads ==
    <<[road_id |-> "road_nh", road_type |-> "highway", lanes |-> 6,
       needs_intervention |-> TRUE, priority |-> "critical",
       frequency_score |-> 90, avg_congestion |-> 85,
       peak_hours |-> <<8>>,
       recommendations |-> <<Recommendation("widening", "high"),
                             Recommendation("flyover", "high")>>],
      [road_id |-> "road_mg", road_type |-> "primary", lanes |-> 2,
       needs_intervention |-> TRUE, priority |-> "high",
       frequency_score |-> 60, avg_congestion |-> 65,
       peak_hours |-> <<8>>,
       recommendations |-> <<Recommendation("signals", "high")>>],
      [road_id |-> "road_ring", road_type |-> "secondary", lanes |-> 3,
       needs_intervention |-> TRUE, priority |-> "medium",
       frequency_score |-> 35, avg_congestion |-> 50,
       peak_hours |-> <<>>,
       recommendations |-> <<Recommendation("planning", "medium")>>]>>

\* the body answered to request number `request` for a window of `days`
ApiBody(days, request) ==
    [source |-> "api", request |-> request, days |-> days,
     roads |-> ApiRoads,
     area_insights |-> [total_estimated_cost |-> 452]]

RoadIds(data) ==
    IF data = NoData THEN {}
    ELSE {data.roads[i].road_id : i \in 1..Len(data.roads)}

RoadById(data, id) ==
    data.roads[CHOOSE i \in 1..Len(data.roads) : data.roads[i].road_id = id]

getRoadColor(road) ==
    LET combined == 6 * road.frequency_score + 4 * road.avg_congestion
    IN IF combined >= 800 THEN "#d32f2f"
       ELSE IF combined >= 600 THEN "#f57c00"
       ELSE IF combined >= 400 THEN "#fbc02d"
       ELSE IF combined >= 200 THEN "#689f38"
       ELSE "#9e9e9e"

getRoadWeight(road) ==
    LET base == CASE road.road_type = "highway" -> 6
                  [] road.road_type = "primary" -> 5
                  [] road.road_type = "secondary" -> 4
                  [] road.road_type = "tertiary" -> 3
                  [] road.road_type = "residential" -> 2
                  [] OTHER -> 3
    IN IF road.frequency_score >= 70 THEN base + 2
       ELSE IF road.frequency_score >= 40 THEN base + 1
       ELSE base

\* the number of recommendations of all roads whose field has one of
\* the values
CountRecommendations(roads, field, values) ==
    SumOver(1..Len(roads),
            [i \in 1..Len(roads) |->
                Cardinality({j \in 1..Len(roads[i].recommendations) :
                                roads[i].recommendations[j][field]
                                   \in values})])

CountPriority(roads, prio) ==
    Cardinality({i \in 1..Len(roads) : roads[i].priority = prio})

\* the statistics panel after updateStatistics(); old is the panel before
updateStatistics(data, old) ==
    IF data = NoData THEN old
    ELSE LET roads == data.roads
             totalCost == data.area_insights.total_estimated_cost
             needsChangeCount ==
                 CountRecommendations(roads, "priority",
                                      {"high", "critical"})
         IN [request |-> data.request,
             critical |-> CountPriority(roads, "critical"),
             high |-> CountPriority(roads, "high"),
             medium |-> CountPriority(roads, "medium"),
             low |-> CountPriority(roads, "low")
                        + CountPriority(roads, "monitor"),
             totalCost |-> (totalCost + 5) \div 10,
             needsChange |-> needsChangeCount,
             needsFlyover |->
                 CountRecommendations(roads, "type", {"flyover"}),
             needsWidening |->
                 CountRecommendations(roads, "type", {"widening"}),
             monitor |-> Len(roads) - needsChangeCount]

\* a slip that leaves the overlay as it is
hideLoadingKept(overlay) == overlay

hideLoading(overlay) == "none"

showLoading(overlay) == "flex"

\* loadAnalysisData after its await: the try block up to the first throw,
\* then the catch block
loadAnalysisData(outcome, req, stats) ==
    IF outcome = "ok"
    THEN LET body == ApiBody(req.days, req.id)
         IN [analysisData |-> body,
             statistics |-> updateStatistics(body, stats)]
    ELSE [analysisData |-> loadSampleData(req.id), statistics |-> stats]

Polyline(road) ==
    [road_id |-> road.road_id, color |-> getRoadColor(road),
     weight |-> getRoadWeight(road), opacity |-> 80]

\* renderAnalysis: the stress layer and the intervention markers
renderAnalysis(data, filters, layers, markers) ==
    IF data = NoData
    THEN [roadLayers |-> layers, interventionMarkers |-> markers]
    ELSE [roadLayers |->
             {Polyline(data.roads[i]) :
                 i \in {k \in 1..Len(data.roads) :
                           data.roads[k].road_type \in filters.roadTypes}},
          interventionMarkers |->
             UNION {{<<data.roads[i].road_id,
                       data.roads[i].recommendations[j].type>> :
                        j \in {k \in 1..Len(data.roads[i].recommendations) :
                                  data.roads[i].recommendations[k].type
                                     \in filters.interventions}} :
                    i \in {k \in 1..Len(data.roads) :
                              data.roads[k].needs_intervention}}]

LayerOf(layers, id) == CHOOSE l \in layers : l.road_id = id

\* the polylines after setStyle on the one of road id: its weight changed
\* by delta, its opacity set
SetStyle(layers, id, delta, opacity) ==
    {IF l.road_id = id
     THEN [l EXCEPT !.weight = @ + delta, !.opacity = opacity]
     ELSE l : l \in layers}

\* highlightSelectedRoad: every road back to its own style, then the
\* selected one in blue and three wider
highlightSelectedRoad(data, layers, id) ==
    LET reset == {Polyline(RoadById(data, l.road_id)) : l \in layers}
    IN {IF l.road_id = id THEN [l EXCEPT !.color = "#2196f3"] ELSE l :
           l \in SetStyle(reset, id, 3, 100)}

InitDash ==
    /\ windowDays = 0
    /\ samples = <<>>
    /\ meta = None
    /\ pc = "idle"
    /\ pattern = None
    /\ metrics = None
    /\ decision = None
    /\ recommendations = <<>>
    /\ priorityScore = 0
    /\ priority = None
    /\ raised = FALSE
    /\ prevScore = 0
    /\ reqDays = 0
    /\ areaRoads = <<>>
    /\ effDays = 0
    /\ response = NoResponse
    /\ prevResponse = NoResponse
    /\ reordered = FALSE
    /\ frontIn = NoPage
    /\ frontCalls = 0
    /\ analysisResults = NoResults
    /\ prevAnalysisResults = NoResults
    /\ chartsHourly = <<>>
    /\ prevChartsHourly = <<>>
    /\ RouteIdle
    /\ ListIdle
    /\ analysisData = NoData
    /\ currentFilters = InitialFilters
    /\ loadingOverlay \in {"none", "flex"}
    /\ requests = <<>>
    /\ issued = 0
    /\ statistics = NoStatistics
    /\ roadLayers = {}
    /\ interventionMarkers = {}
    /\ selectedRoad = NoRoad
    /\ hoveredRoad = NoRoad
    /\ listeners = FALSE
    /\ lastLoad = NoCall

\* init() up to its await: the map is created and the first load is issued
OpenDashboard ==
    /\ issued = 0
    /\ issued' = 1
    /\ loadingOverlay' = showLoading(loadingOverlay)
    /\ requests' = <<[id |-> 1, days |-> currentFilters.timeRange,
                      caller |-> "init"]>>
    /\ UNCHANGED <<analysisData, currentFilters, statistics, roadLayers,
                   interventionMarkers, selectedRoad, hoveredRoad, listeners,
                   lastLoad>>
    /\ UNCHANGED <<roadVars, areaVars, frontVars, routeVars, listVars>>

\* a pending load gets its answer: loadAnalysisData finishes, and then its
\* caller: init() sets the listeners up and renders, reloadAnalysis()
\* renders and hides the overlay
LoadCompletes ==
    \E i \in 1..Len(requests), outcome \in LoadOutcomes :
       LET req == requests[i]
           loaded == loadAnalysisData(outcome, req, statistics)
           drawn == renderAnalysis(loaded.analysisData, currentFilters,
                                   roadLayers, interventionMarkers)
       IN /\ requests' = [j \in 1..(Len(requests) - 1) |->
                             IF j < i THEN requests[j] ELSE requests[j + 1]]
          /\ analysisData' = loaded.analysisData
          /\ statistics' = loaded.statistics
          /\ loadingOverlay' = hideLoading(loadingOverlay)
          /\ roadLayers' = drawn.roadLayers
          /\ interventionMarkers' = drawn.interventionMarkers
          /\ hoveredRoad' = NoRoad
          /\ listeners' = TRUE
          /\ lastLoad' = [kind |-> "load", request |-> req.id,
                          caller |-> req.caller, outcome |-> outcome,
                          overlay |-> loadingOverlay']
          /\ UNCHANGED <<currentFilters, issued, selectedRoad>>
          /\ UNCHANGED <<roadVars, areaVars, frontVars, routeVars, listVars>>

\* reloadAnalysis() up to its await
ReloadAnalysis(filters) ==
    /\ issued < 1 + MaxReloads
    /\ issued' = issued + 1
    /\ currentFilters' = filters
    /\ loadingOverlay' = showLoading(loadingOverlay)
    /\ requests' = Append(requests, [id |-> issued + 1,
                                     days |-> filters.timeRange,
                                     caller |-> "reload"])
    /\ UNCHANGED <<analysisData, statistics, roadLayers, interventionMarkers,
                   selectedRoad, hoveredRoad, listeners, lastLoad>>
    /\ UNCHANGED <<roadVars, areaVars, frontVars, routeVars, listVars>>

\* the time-range selector changes
ChangeTimeRange ==
    \E d \in TimeRanges \ {currentFilters.timeRange} :
       /\ listeners
       /\ hoveredRoad = NoRoad
       /\ ReloadAnalysis([currentFilters EXCEPT !.timeRange = d])

\* the Apply Filters button is clicked
ApplyFilters ==
    /\ listeners
    /\ hoveredRoad = NoRoad
    /\ ReloadAnalysis(currentFilters)

\* a priority badge is clicked: its active class is toggled, the priority
\* filters are read from the active badges and the analysis is rendered
TogglePriority ==
    \E badge \in PriorityBadges :
       LET active == IF badge \in currentFilters.priorities
                     THEN currentFilters.priorities \ {badge}
                     ELSE currentFilters.priorities \cup {badge}
           filters == [currentFilters EXCEPT !.priorities = active]
           drawn == renderAnalysis(analysisData, filters, roadLayers,
                                   interventionMarkers)
       IN /\ listeners
          /\ hoveredRoad = NoRoad
          /\ currentFilters' = filters
          /\ roadLayers' = drawn.roadLayers
          /\ interventionMarkers' = drawn.interventionMarkers
          /\ UNCHANGED <<analysisData, loadingOverlay, requests, issued,
                         statistics, selectedRoad, hoveredRoad, listeners,
                         lastLoad>>
          /\ UNCHANGED <<roadVars, areaVars, frontVars, routeVars, listVars>>

\* the pointer enters a road's polyline
OnRoadHover ==
    \E l \in roadLayers :
       /\ hoveredRoad = NoRoad
       /\ hoveredRoad' = l.road_id
       /\ roadLayers' = SetStyle(roadLayers, l.road_id, 2, 100)
       /\ UNCHANGED <<analysisData, currentFilters, loadingOverlay, requests,
                      issued, statistics, interventionMarkers, selectedRoad,
                      listeners, lastLoad>>
       /\ UNCHANGED <<roadVars, areaVars, frontVars, routeVars, listVars>>

\* the pointer leaves the polyline it was on
OnRoadHoverOut ==
    /\ hoveredRoad # NoRoad
    /\ hoveredRoad' = NoRoad
    /\ roadLayers' =
          IF LayerOf(roadLayers, hoveredRoad).weight >= 2
          THEN SetStyle(roadLayers, hoveredRoad, -2, 80)
          ELSE roadLayers
    /\ UNCHANGED <<analysisData, currentFilters, loadingOverlay, requests,
                   issued, statistics, interventionMarkers, selectedRoad,
                   listeners, lastLoad>>
    /\ UNCHANGED <<roadVars, areaVars, frontVars, routeVars, listVars>>

\* selectRoad(roadId) for a road of the analysis: the details and the
\* traffic patterns with the hourly chart are updated and the road is
\* highlighted
SelectRoadStep(id) ==
    /\ id \in RoadIds(analysisData)
    /\ selectedRoad' = id
    /\ roadLayers' = highlightSelectedRoad(analysisData, roadLayers, id)
    /\ \E draws \in [1..Len(RoadById(analysisData, id).peak_hours)
                        -> RandomDraws] :
          chartsHourly' = HourlyData(RoadById(analysisData, id).peak_hours,
                                     draws)
    /\ UNCHANGED <<frontIn, frontCalls, analysisResults, prevAnalysisResults,
                   prevChartsHourly>>
    /\ UNCHANGED <<analysisData, currentFilters, loadingOverlay, requests,
                   issued, statistics, interventionMarkers, hoveredRoad,
                   listeners, lastLoad>>
    /\ UNCHANGED <<roadVars, areaVars, routeVars, listVars>>

\* the road under the pointer is clicked
OnRoadClick ==
    /\ hoveredRoad # NoRoad
    /\ SelectRoadStep(hoveredRoad)

\* View Details in a road's popup or an entry of the interventions list
SelectRoad ==
    \E id \in RoadIds(analysisData) :
       /\ hoveredRoad = NoRoad
       /\ SelectRoadStep(id)

NextDash ==
    \/ OpenDashboard
    \/ LoadCompletes
    \/ ChangeTimeRange
    \/ ApplyFilters
    \/ TogglePriority

SpecDash == InitDash /\ [][NextDash]_vars

NextPointer ==
    \/ OpenDashboard
    \/ LoadCompletes
    \/ OnRoadHover
    \/ OnRoadHoverOut
    \/ OnRoadClick
    \/ SelectRoad

SpecPointer == InitDash /\ [][NextPointer]_vars

(***************************************************************************)
(* Properties.                                                             *)
(***************************************************************************)
Classified == pc \in {"classified", "generated", "done"}

\* the decision rules as a table: condition, and tier of the outcome
RuleHolds(i, p, m) ==
    CASE i = 1 -> FreqGE(p, 80) /\ m.maxCongestion >= 90
      [] i = 2 -> FreqGE(p, 57) /\ AvgGE(m, 70)
      [] i = 3 -> FreqGE(p, 57) /\ AvgGE(m, 60)
      [] i = 4 -> FreqGE(p, 57)
      [] i = 5 -> m.maxCongestion >= 90 /\ FreqGE(p, 30)
      [] i = 6 -> p.trend = "increasing" /\ FreqGE(p, 30)
      [] OTHER -> TRUE

RuleTier(i) ==
    CASE i = 1 -> "critical"
      [] i \in {2, 3} -> "high"
      [] i \in {4, 5, 6} -> "medium"
      [] OTHER -> "monitor"

RuleOfReason(reason) ==
    CASE reason = "daily extreme congestion" -> 1
      [] reason = "regular severe congestion" -> 2
      [] reason = "regular congestion" -> 3
      [] reason = "recurring pattern" -> 4
      [] reason = "occasional severe" -> 5
      [] reason = "growth concern" -> 6
      [] OTHER -> 7

InterventionTiers == {"critical", "high", "medium"}

RecTypes(recs) == {recs[i].type : i \in 1..Len(recs)}

\* C1: the decision rules are applied top-down and the first matching rule
\* decides: the rule reported is the lowest-numbered rule whose condition
\* holds, the tier is that rule's tier, and a road with frequency >= 0.86,
\* maximum congestion >= 0.90 and average congestion >= 0.70 (rules 1 and 2
\* both match) is critical.
C1_FirstMatchWins ==
    Classified =>
        LET r == RuleOfReason(decision.reason)
        IN /\ RuleHolds(r, pattern, metrics)
           /\ \A i \in 1..7 : RuleHolds(i, pattern, metrics) => r <= i
           /\ decision.tier = RuleTier(r)
           /\ (FreqGE(pattern, 86) /\ metrics.maxCongestion >= 90
                 /\ AvgGE(metrics, 70)) => decision.tier = "critical"

\* C1 witness: a classified road on which rules 1 and 2 both match
C1_Witness ==
    /\ pc = "classified"
    /\ FreqGE(pattern, 86)
    /\ RuleHolds(1, pattern, metrics)
    /\ RuleHolds(2, pattern, metrics)
    /\ decision.tier = "critical"

\* C2 (as claimed): in every result of the pipeline, needsIntervention is
\* true iff the list of recommendations is non-empty, also for roads whose
\* length or type is missing.
C2_NeedsIffRecommendations ==
    pc = "done" => (decision.needs <=> recommendations # <<>>)

\* C3: in every result, needsIntervention holds exactly when the priority
\* is critical, high or medium, for the tier of the decision matrix and for
\* the priority label of the score alike; priority is monitor exactly when
\* no intervention is needed; no road needing one is low or monitor.
C3_NeedsIffPriorityTier ==
    pc = "done" =>
        /\ decision.needs <=> decision.tier \in InterventionTiers
        /\ decision.needs <=> priority \in InterventionTiers
        /\ priority = "monitor" <=> ~decision.needs
        /\ decision.needs => priority \notin {"monitor", "low"}

\* C3 witness: a road needing intervention whose score is in the medium
\* band, so that its label comes from the lowest intervention tier
C3_Witness ==
    /\ pc = "done"
    /\ decision.needs
    /\ priorityScore < 60
    /\ priority = "medium"

\* C4 (as claimed): a road is classified critical iff frequency >= 0.86 and
\* maximum congestion >= 0.90.
C4_CriticalIff86 ==
    Classified =>
        (decision.tier = "critical"
            <=> (FreqGE(pattern, 86) /\ metrics.maxCongestion >= 90))

\* C5 (as claimed): MG Road (8 km, primary, 2 lanes, 24 of 30 days high,
\* average 0.75, maximum 0.92) is classified high by rule 2 and gets a
\* widening recommendation of exactly 68.0 crore.
C5_Scenario3HighWidening ==
    (pc = "done" /\ samples = Scenario3 /\ meta = MGRoad) =>
        /\ pattern.freqNum = 24 /\ pattern.freqDen = 30
        /\ metrics.avgNum = 75 * metrics.avgDen
        /\ metrics.maxCongestion = 92
        /\ decision.tier = "high"
        /\ RuleOfReason(decision.reason) = 2
        /\ \E i \in 1..Len(recommendations) :
              /\ recommendations[i].type = "widening"
              /\ recommendations[i].estimatedCost = 6800

\* C6 (as claimed): 30 days all at congestion 0.80 give frequency 1.0 and
\* priority critical, with a widening or flyover recommendation, which costs
\* lengthKm * 8.5 crore when the lanes are below the recommended number.
C6_Scenario1CriticalWidening ==
    (pc = "done" /\ samples = Scenario1 /\ ValidRoadMetadata(meta)) =>
        /\ pattern.freqNum = pattern.freqDen
        /\ priority = "critical" \/ decision.tier = "critical"
        /\ RecTypes(recommendations) \cap {"widening", "flyover"} # {}
        /\ meta.lanes < get_recommended_lanes(meta.roadType) =>
              \E i \in 1..Len(recommendations) :
                  recommendations[i].estimatedCost
                      = meta.lengthKm * WIDENING_PER_KM

\* C7 (as claimed): raising the congestion of one sample of one day, all
\* else fixed, never lowers the priority score.
C7_ScoreMonotone ==
    (pc = "done" /\ raised) => priorityScore >= prevScore

\* C8: a road with frequency below 0.30 is classified monitor, needs no
\* intervention and gets no recommendation, whatever its average and
\* maximum congestion and its trend.
C8_RareCongestionMonitored ==
    (pc = "done" /\ ~FreqGE(pattern, 30)) =>
        /\ decision.tier = "monitor"
        /\ ~decision.needs
        /\ priority = "monitor"
        /\ recommendations = <<>>

\* C8 witness: a finished analysis of a road with frequency below 0.30
\* whose maximum congestion is severe, on valid metadata
C8_Witness ==
    /\ pc = "done"
    /\ ~FreqGE(pattern, 30)
    /\ metrics.maxCongestion >= 90
    /\ ValidRoadMetadata(meta)
    /\ recommendations = <<>>

C10_FrequencyBounded ==
    pc # "start" =>
        /\ 0 <= pattern.freqNum
        /\ pattern.freqNum <= pattern.freqDen
        /\ pattern.freqDen >= 1
        /\ pattern.highTrafficDayCount <= Cardinality(DaysWithData(samples))

\* C10 witness: an analysed sample set in which one day carries two
\* samples at or above the threshold and counts as one high-traffic day
C10_Witness ==
    /\ pc = "analyzed"
    /\ \E d \in DOMAIN samples :
          /\ Len(samples[d]) >= 2
          /\ \A i \in 1..Len(samples[d]) :
                samples[d][i] >= HIGH_TRAFFIC_THRESHOLD
    /\ pattern.highTrafficDayCount = Cardinality(DaysWithData(samples))
    /\ pattern.freqNum = pattern.freqDen

\* C11: the frequency score is the number of days whose daily congestion is
\* at least 0.70 (exactly 0.70 included) over the number of days that have
\* data, not over the length of the window; 22 such days of 30 observed
\* days give 22/30, which is 0.73 to two places.
C11_FrequencyOverObservedDays ==
    pc # "start" =>
        LET observed == {d \in DOMAIN samples : Len(samples[d]) > 0}
            high == {d \in observed :
                        SeqSum(samples[d]) >= 70 * Len(samples[d])}
        IN /\ pattern.freqNum * Cardinality(observed)
                 = Cardinality(high) * pattern.freqDen
           /\ observed # {} => pattern.freqDen = Cardinality(observed)
           /\ samples = TestFrequencyDays =>
                 /\ pattern.freqNum = 22
                 /\ pattern.freqDen = 30
                 /\ 2 * (100 * pattern.freqNum - 73 * pattern.freqDen)
                       < pattern.freqDen
                 /\ 2 * (73 * pattern.freqDen - 100 * pattern.freqNum)
                       < pattern.freqDen

\* C11 witness: an analysed window with fewer observed days than calendar
\* days, in which a day at exactly 0.70 is the only high-traffic day
C11_Witness ==
    /\ pc = "analyzed"
    /\ Cardinality(DaysWithData(samples)) = 2
    /\ Cardinality(DaysWithData(samples)) < windowDays
    /\ \E d \in DOMAIN samples : samples[d] = <<70>>
    /\ \E d \in DOMAIN samples : samples[d] = <<30>>
    /\ pattern.freqNum = 1
    /\ pattern.freqDen = 2

\* the tiers whose score band contains sc
TiersOf(sc) ==
    {t \in {"critical", "high", "medium", "low", "monitor"} :
        CASE t = "critical" -> 80 <= sc /\ sc <= 100
          [] t = "high" -> 60 <= sc /\ sc <= 79
          [] t = "medium" -> 40 <= sc /\ sc <= 59
          [] t = "low" -> 20 <= sc /\ sc <= 39
          [] OTHER -> sc < 20}

\* C12: calculate_priority returns the tier of the weighted score
\* frequency*40 + max congestion*30 + consistency*20 + trend bonus*10
\* rounded to an integer (without weekly averages the consistency term is
\* at its full 20 points); the road analysis with frequency 0.8, increasing
\* trend, average 0.75 and maximum 0.92 and no weekly averages is critical.
C12_PriorityOfWeightedScore ==
    pc = "scored" =>
        LET t == pattern.freqDen
            X == 400 * pattern.freqNum + 3 * metrics.maxCongestion * t
                 + 10 * TrendBonus10(pattern.trend) * t + 200 * t
        IN /\ priority \in TiersOf(priorityScore)
           /\ pattern.weeklyAverage = <<>> =>
                 /\ 10 * t * priorityScore - 5 * t <= X
                 /\ X < 10 * t * priorityScore + 5 * t
           /\ (pattern = TestPriorityPattern /\ metrics = TestPriorityMetrics)
                 => (priorityScore = 90 /\ priority = "critical")

\* C12 witness: the road analysis of the test has been scored critical
C12_Witness ==
    /\ pc = "scored"
    /\ pattern = TestPriorityPattern
    /\ metrics = TestPriorityMetrics
    /\ priority = "critical"

\* C13: for frequency, maximum congestion and weekly averages in [0,1] the
\* score is an integer in [0,100] and lies in exactly one tier band, the
\* one of the priority label.
C13_ScoreInRangeOneTier ==
    pc = "scored" =>
        /\ priorityScore \in 0..100
        /\ Cardinality(TiersOf(priorityScore)) = 1
        /\ TiersOf(priorityScore) = {priority}

\* C13 witness: the largest inputs with two equal weekly averages reach
\* the top of the range
C13_Witness ==
    /\ pc = "scored"
    /\ pattern.freqNum = pattern.freqDen
    /\ metrics.maxCongestion = 100
    /\ pattern.trend = "increasing"
    /\ Cardinality(DOMAIN pattern.weeklyAverage) >= 2
    /\ priorityScore = 100
    /\ priority = "critical"

\* C14 (as claimed): every road classified critical, here with complete
\* metadata, gets at least one widening or flyover recommendation, whatever
\* its average congestion, lanes and road type.
C14_CriticalGetsWideningOrFlyover ==
    (pc \in {"generated", "done"} /\ decision.tier = "critical"
        /\ ValidRoadMetadata(meta))
    => RecTypes(recommendations) \cap {"widening", "flyover"} # {}

\* C15 (as claimed): the hotspots of an area (top 5 by frequency*0.6 +
\* avgCongestion*0.4, ties broken by the higher priority score) are the
\* same list in the same order for every order of the same road analyses,
\* also when two roads tie on both keys.
C15_HotspotsOrderIndependent ==
    (reordered /\ response.status = 200) =>
        response.area_insights.hotspots = prevResponse.area_insights.hotspots

\* the analysed roads of an area response
Analysed(resp) == SelectSeq(resp.roads, LAMBDA r : ~r.analysis.failed)

\* the phases whose list names the road
PhasesNaming(ins, id) ==
    {ph \in 1..3 :
        \E k \in 1..Len(ins.recommended_phasing[ph].roads) :
            ins.recommended_phasing[ph].roads[k] = id}

Succeeding == {i \in 1..Len(areaRoads) :
                  ~RoadCatalogue[areaRoads[i].profile].fails}

C19_UnknownWindowRejected ==
    (response.status # 0 /\ reqDays \notin {7, 30, 90, 365})
    => response.status # 200

\* C20 (as claimed): two calls of an analyze operation with the same inputs
\* and the same underlying data give identical output: the second
\* analyze() of the map page shows the results of the first, also after a
\* failed request, and the second drawing of a road's hourly pattern shows
\* the levels of the first.
C20_RepeatedCallsAgree ==
    frontCalls = MaxCalls =>
        /\ analysisResults = prevAnalysisResults
        /\ chartsHourly = prevChartsHourly

\* C21: getGoogleMapsRoute returns the cached result without fetching
\* exactly when an entry for the key exists and is younger than 300000 ms;
\* a fetched body with a route is returned and stored under the key with
\* the time of storing; every other outcome returns null and leaves the
\* cache as it was; no returned cached value is 300000 ms old or older.
C21_CachedOnlyWithinTTL ==
    /\ lastStart # NoCall =>
          (lastStart.served <=> (lastStart.had /\ lastStart.age < 300000))
    /\ lastReturn.kind = "cached" =>
          /\ lastReturn.age < 300000
          /\ lastReturn.value = lastReturn.entry.data
          /\ lastReturn.value = [route |-> lastReturn.key]
    /\ lastReturn.kind = "fetched" =>
          /\ lastReturn.outcome = "route"
          /\ lastReturn.value = [route |-> lastReturn.key]
          /\ lastReturn.entry = [present |-> TRUE,
                                 data |-> lastReturn.value,
                                 timestamp |-> lastReturn.at]
    /\ lastReturn.kind = "null" =>
          /\ lastReturn.outcome # "route"
          /\ lastReturn.value = Null
          /\ ~lastReturn.cacheChanged
    /\ (lastReturn # NoCall /\ lastReturn.outcome = "route") =>
          lastReturn.kind = "fetched"
    /\ \A k \in DOMAIN apiCache :
          apiCache[k] # NoEntry =>
             /\ apiCache[k].data = [route |-> k]
             /\ apiCache[k].timestamp <= now

\* an entry was served from the cache, and later a call found it 300000 ms
\* old or older and fetched again
C21_Witness ==
    /\ lastReturn.kind = "cached"
    /\ lastReturn.age > 0
    /\ lastStart # NoCall
    /\ lastStart.had
    /\ lastStart.age >= 300000
    /\ ~lastStart.served
    /\ Len(fetches) > 0

\* C22: after loadAnalysisData completes, for init as for reloadAnalysis
\* and whether the request succeeded, returned a non-OK status or threw,
\* analysisData is not null: it is the API response when the request
\* succeeded and the built-in sample data otherwise; and the loading
\* overlay is hidden.
C22_DataAndOverlayAfterLoad ==
    lastLoad # NoCall =>
       /\ analysisData # NoData
       /\ analysisData.request = lastLoad.request
       /\ analysisData.source = IF lastLoad.outcome = "ok"
                                THEN "api" ELSE "sample"
       /\ lastLoad.overlay = "none"
       /\ (requests = <<>> => loadingOverlay = "none")

\* a reload whose request returned a non-OK status has completed
C22_Witness ==
    /\ lastLoad # NoCall
    /\ lastLoad.caller = "reload"
    /\ lastLoad.outcome = "not_ok"
    /\ analysisData.source = "sample"
    /\ requests = <<>>
    /\ loadingOverlay = "none"

\* C23 (as claimed): the dashboard map shows only roads whose priority is
\* among the active priority filters: once the listeners are set up, no
\* drawn road has a priority whose badge is not active.
C23_DrawnRoadsPassPriorityFilter ==
    listeners =>
       \A l \in roadLayers :
          RoadById(analysisData, l.road_id).priority
             \in currentFilters.priorities

\* C24 (as claimed): once no request is in flight, analysisData is the
\* answer to the most recently issued request, for the current
\* currentFilters.timeRange.
C24_LatestRequestWins ==
    (issued > 0 /\ requests = <<>>) =>
       /\ analysisData.request = issued
       /\ analysisData.source = "api" =>
             analysisData.days = currentFilters.timeRange

\* C25 (as claimed): whenever loadAnalysisData has completed, the
\* statistics panel is what updateStatistics computes from the
\* analysisData in effect, also when the sample data was substituted.
C25_StatisticsFollowData ==
    lastLoad # NoCall =>
       statistics = updateStatistics(analysisData, NoStatistics)

\* C26 (as claimed): every widening recommendation goes from the road's
\* current lanes to recommendedLanes(roadType), which is strictly more; a
\* CRITICAL road already at or above recommendedLanes(roadType) gets a
\* flyover and no widening.
C26_WideningAddsLanes ==
    (pc \in {"generated", "done"} /\ ValidRoadMetadata(meta)) =>
       /\ \A i \in 1..Len(recommendations) :
             recommendations[i].type = "widening" =>
                /\ recommendations[i].fromLanes = meta.lanes
                /\ recommendations[i].toLanes
                      = get_recommended_lanes(meta.roadType)
                /\ recommendations[i].toLanes > recommendations[i].fromLanes
       /\ (decision.tier = "critical"
              /\ meta.lanes >= get_recommended_lanes(meta.roadType)) =>
             /\ "flyover" \in RecTypes(recommendations)
             /\ "widening" \notin RecTypes(recommendations)

\* C27 (as claimed): updateRecommendations orders the recommendations by
\* priority HIGH, then MEDIUM, then LOW before taking the top 5: in the
\* sorted list no MEDIUM or LOW recommendation precedes a HIGH one.
C27_HighFirst ==
    sorted.called =>
       /\ Len(sorted.list) = Len(recommendationsIn)
       /\ \A i \in 1..Len(sorted.list), j \in 1..Len(sorted.list) :
             (i < j /\ sorted.list[j].priority = "HIGH") =>
                sorted.list[i].priority = "HIGH"

\* the roads of the analysis that carry a high or critical recommendation
RoadsNeedingChange(data) ==
    {i \in 1..Len(data.roads) :
        \E j \in 1..Len(data.roads[i].recommendations) :
           data.roads[i].recommendations[j].priority
              \in {"high", "critical"}}

\* C28 (as claimed): after updateStatistics the monitor count is the
\* number of roads that need no change: it lies between 0 and the number
\* of roads, and needs-change count plus monitor count is the number of
\* roads with every road counted once, also when a road carries several
\* high or critical recommendations.
C28_MonitorCountsRoads ==
    (statistics # NoStatistics
        /\ statistics.request = analysisData.request) =>
       /\ statistics.needsChange
             = Cardinality(RoadsNeedingChange(analysisData))
       /\ statistics.monitor
             = Len(analysisData.roads)
                  - Cardinality(RoadsNeedingChange(analysisData))
       /\ statistics.monitor >= 0
       /\ statistics.monitor <= Len(analysisData.roads)

\* C29 (as claimed): the total investment shown by updateStatistics is
\* area_insights.total_estimated_cost in crore, to one decimal (both in
\* tenths of a crore here: 45.2 crore is shown as 45.2).
C29_TotalCostInCrore ==
    (statistics # NoStatistics
        /\ statistics.request = analysisData.request) =>
       statistics.totalCost = analysisData.area_insights.total_estimated_cost

\* C30 (as claimed): after any sequence of mouseover, mouseout, click and
\* selectRoad, a drawn road that is neither hovered nor selected has the
\* weight getRoadWeight(road), and the selected road, when the pointer is
\* not on it, has the weight getRoadWeight(road) + 3.
C30_WeightsAfterPointerEvents ==
    \A l \in roadLayers :
       LET own == getRoadWeight(RoadById(analysisData, l.road_id))
       IN /\ (l.road_id # hoveredRoad /\ l.road_id # selectedRoad) =>
                l.weight = own
          /\ (l.road_id # hoveredRoad /\ l.road_id = selectedRoad) =>
                l.weight = own + 3

====
